---------------------------- MODULE Spec2Model ----------------------------
(***************************************************************************)
(* A model of the youtube-agent dialogue loop (src/src/agent.py) and of    *)
(* the two tools it registers: youtube_search, which wraps                 *)
(* ytinteraction.ytretriever (src/src/modules/ytinteraction.py), and       *)
(* validate_date_format.                                                   *)
(*                                                                         *)
(* Text is modelled as a sequence of one-character strings where the code  *)
(* parses it (the date strings) and as a sequence of tokens where the code *)
(* only builds it (message contents, the formatted search result).         *)
(***************************************************************************)
EXTENDS Integers, Sequences, FiniteSets, TLC

VARIABLES
    pc,        \* position of the __main__ loop / the compiled graph
    messages,  \* __main__'s `messages` list (agent.py:126,137)
    state,     \* the graph's AgentState["messages"] channel during app.invoke
    route,     \* the label should_continue returned last ("none" before any)
    step,      \* supersteps the graph has executed in the current app.invoke
    last,      \* the step that ran last (history of the control flow)
    output,    \* the text printed to the caller last (agent.py:139)
    nextId,    \* source of fresh tool-call identifiers
    turns,     \* turns started in this session
    info,      \* self.info of the ytinteraction instance of the last search
    sarg,      \* arguments and API response of the last youtube_search call
    sret,      \* outcome of the last youtube_search call
    sprev,     \* outcome of the youtube_search call before the last
    darg,      \* argument of the last validate_date_format call
    dret,      \* outcome of the last validate_date_format call
    tr         \* the running ytinteraction.yttranscript call: its ids, its
               \* position in the loop over them, and the fetches it made

vars == <<pc, messages, state, route, step, last, output, nextId, turns,
          info, sarg, sret, sprev, darg, dret, tr>>

\* ------------------------------------------------------------------ bounds

\* Items in one search API response.
MaxItems == 2
\* Turns of one session.
MaxTurns == 2
\* A new turn is started only while the history holds at most this many messages.
MaxHistory == 6
\* Supersteps of a turn during which the LLM and the search API are drawn
\* from their full sets; afterwards from one canonical tool call / response.
MaxVaried == 3

\* ------------------------------------------------------------ text helpers

Digits == {"0", "1", "2", "3", "4", "5", "6", "7", "8", "9"}

NonZeroDigits == Digits \ {"0"}

DigitVal(c) ==
    CASE c = "0" -> 0 [] c = "1" -> 1 [] c = "2" -> 2 [] c = "3" -> 3
      [] c = "4" -> 4 [] c = "5" -> 5 [] c = "6" -> 6 [] c = "7" -> 7
      [] c = "8" -> 8 [] c = "9" -> 9 [] OTHER -> 0

\* int(t) of a field the regular expression matched; int() skips the blank
\* a day such as " 3" starts with.
RECURSIVE IntOf(_)
IntOf(t) ==
    IF t = <<>> THEN 0
    ELSE IntOf(SubSeq(t, 1, Len(t) - 1)) * 10 + DigitVal(t[Len(t)])

IsPrefix(s, t) == Len(s) <= Len(t) /\ SubSeq(t, 1, Len(s)) = s

Last(s) == s[Len(s)]

\* ------------------------------------------- datetime.strptime(s, "%m/%d/%Y")

\* _strptime's regular expression for %m: 1[0-2]|0[1-9]|[1-9]
MonthRe(t) ==
    \/ Len(t) = 2 /\ t[1] = "1" /\ t[2] \in {"0", "1", "2"}
    \/ Len(t) = 2 /\ t[1] = "0" /\ t[2] \in NonZeroDigits
    \/ Len(t) = 1 /\ t[1] \in NonZeroDigits

\* _strptime's regular expression for %d: 3[0-1]|[1-2]\d|0[1-9]|[1-9]| [1-9]
DayRe(t) ==
    \/ Len(t) = 2 /\ t[1] = "3" /\ t[2] \in {"0", "1"}
    \/ Len(t) = 2 /\ t[1] \in {"1", "2"} /\ t[2] \in Digits
    \/ Len(t) = 2 /\ t[1] = "0" /\ t[2] \in NonZeroDigits
    \/ Len(t) = 1 /\ t[1] \in NonZeroDigits
    \/ Len(t) = 2 /\ t[1] = " " /\ t[2] \in NonZeroDigits

\* _strptime's regular expression for %Y: \d\d\d\d
YearRe(t) == Len(t) = 4 /\ \A i \in 1..4 : t[i] \in Digits

IsLeap(y) == (y % 4 = 0 /\ y % 100 # 0) \/ y % 400 = 0

DaysInMonth(y, m) ==
    IF m = 2 THEN (IF IsLeap(y) THEN 29 ELSE 28)
    ELSE IF m \in {4, 6, 9, 11} THEN 30 ELSE 31

\* What strptime gives for a string that does not parse: a ValueError.
ParseError == [ok |-> FALSE, y |-> 0, m |-> 0, d |-> 0]

\* The format is month "/" day "/" year and the whole string must be
\* consumed; none of the three fields can hold a "/", so the string has
\* exactly two of them and they delimit the fields. The date must exist
\* (datetime's constructor raises ValueError for year 0 or a day the month
\* does not have).
StrptimeDayFirst(s) ==
    LET slashes == {i \in 1..Len(s) : s[i] = "/"}
    IN  IF Cardinality(slashes) # 2 THEN ParseError
        ELSE
          LET i  == CHOOSE k \in slashes : \A l \in slashes : k <= l
              j  == CHOOSE k \in slashes : \A l \in slashes : k >= l
              dt == SubSeq(s, 1, i - 1)
              mt == SubSeq(s, i + 1, j - 1)
              yt == SubSeq(s, j + 1, Len(s))
          IN  IF /\ MonthRe(mt) /\ DayRe(dt) /\ YearRe(yt)
                 /\ IntOf(yt) >= 1
                 /\ IntOf(dt) <= DaysInMonth(IntOf(yt), IntOf(mt))
              THEN [ok |-> TRUE, y |-> IntOf(yt), m |-> IntOf(mt), d |-> IntOf(dt)]
              ELSE ParseError

Strptime(s) ==
    LET slashes == {i \in 1..Len(s) : s[i] = "/"}
    IN  IF Cardinality(slashes) # 2 THEN ParseError
        ELSE
          LET i  == CHOOSE k \in slashes : \A l \in slashes : k <= l
              j  == CHOOSE k \in slashes : \A l \in slashes : k >= l
              mt == SubSeq(s, 1, i - 1)
              dt == SubSeq(s, i + 1, j - 1)
              yt == SubSeq(s, j + 1, Len(s))
          IN  IF /\ MonthRe(mt) /\ DayRe(dt) /\ YearRe(yt)
                 /\ IntOf(yt) >= 1
                 /\ IntOf(dt) <= DaysInMonth(IntOf(yt), IntOf(mt))
              THEN [ok |-> TRUE, y |-> IntOf(yt), m |-> IntOf(mt), d |-> IntOf(dt)]
              ELSE ParseError

\* --------------------------------------------------- validate_date_format

\* The outcome of a call: it returns a value or it raises.
Return(v) == [kind |-> "return", value |-> v]

Raise(e) == [kind |-> "raise", value |-> e]

ValidateDateFormat(date_str) ==
    IF Strptime(date_str).ok THEN Return(TRUE) ELSE Return(FALSE)


\* ---------------------------------------------------- the search provider

\* datetime.now(timezone.utc) of the calls (the clock is the environment's).
Now == [ok |-> TRUE, y |-> 2025, m |-> 9, d |-> 1]

\* A parsed date as a number that orders dates.
DayNumber(p) == p.y * 10000 + p.m * 100 + p.d

\* The items the provider can return.
ItemA == [kind |-> "youtube#video", liveBroadcastContent |-> "none",
          title |-> "Cook &amp; Bake", channelTitle |-> "ChefA",
          publishedAt |-> "2024-03-01T10:00:00Z", videoId |-> "vidA"]

ItemB == [kind |-> "youtube#video", liveBroadcastContent |-> "none",
          title |-> "Quick Pasta", channelTitle |-> "ChefB",
          publishedAt |-> "2025-01-10T08:30:00Z", videoId |-> "vidB"]

ItemC == [kind |-> "youtube#video", liveBroadcastContent |-> "upcoming",
          title |-> "Premiere", channelTitle |-> "ChefA",
          publishedAt |-> "2025-02-02T18:00:00Z", videoId |-> "vidC"]

ItemD == [kind |-> "youtube#channel", liveBroadcastContent |-> "none",
          title |-> "ChefB", channelTitle |-> "ChefB",
          publishedAt |-> "2023-07-07T12:00:00Z", videoId |-> ""]

ItemPool == {ItemA, ItemB, ItemC, ItemD}

PublishedDay(item) ==
    CASE item.publishedAt = "2024-03-01T10:00:00Z" -> 20240301
      [] item.publishedAt = "2025-01-10T08:30:00Z" -> 20250110
      [] item.publishedAt = "2025-02-02T18:00:00Z" -> 20250202
      [] item.publishedAt = "2023-07-07T12:00:00Z" -> 20230707

SeqsUpTo(S, n) == UNION {[1..k -> S] : k \in 0..n}

\* search().list(...).execute() fails (quota, network, a rejected parameter),
\* returns a body without 'items', or returns items published inside the
\* requested window publishedAfter..publishedBefore.
HttpError == [kind |-> "HttpError", items |-> <<>>]

NoItemsKey == [kind |-> "malformed", items |-> <<>>]

ApiResponses(lo, hi) ==
    {HttpError, NoItemsKey} \cup
    {[kind |-> "ok", items |-> is] :
        is \in {r \in SeqsUpTo({it \in ItemPool : lo <= PublishedDay(it)
                                                      /\ PublishedDay(it) <= hi},
                                 MaxItems) :
                    \A i, j \in 1..Len(r) : i # j => r[i] # r[j]}}

\* ------------------------------------------------ ytinteraction.ytretriever

\* A Python dict: its entries in insertion order.
DictSet(d, k, v) ==
    IF \E i \in 1..Len(d) : d[i].key = k
    THEN [i \in 1..Len(d) |-> IF d[i].key = k THEN [key |-> k, value |-> v] ELSE d[i]]
    ELSE Append(d, [key |-> k, value |-> v])

\* html.unescape on the titles the provider returns.
HtmlUnescape(t) == IF t = "Cook &amp; Bake" THEN "Cook & Bake" ELSE t

\* ytinteraction.__init__: every instance starts with an empty self.info.
YtShared(previous) == previous

YtInit(previous) == <<>>

\* before_time / after_time: None and "" both take the default branch.
BeforeTime(before) == IF before = <<>> THEN Now ELSE Strptime(before)

AfterTime(after) == IF after = <<>> THEN [Now EXCEPT !.y = @ - 5] ELSE Strptime(after)

Retained(item) ==
    item.liveBroadcastContent = "none" /\ item.kind = "youtube#video"

\* The key under which a retained item is stored in self.info: the literal
\* 'id', whatever the item.
InfoKey(item) == "id"

\* The for loop over search_response['items'].
RECURSIVE StoreItems(_, _)
StoreItems(self_info, items) ==
    IF items = <<>> THEN self_info
    ELSE LET item == Head(items)
             entry == [title   |-> HtmlUnescape(item.title),
                       channel |-> item.channelTitle,
                       date    |-> item.publishedAt,
                       id      |-> item.videoId,
                       transcript |-> "None",
                       transcript_summary |-> "None"]
         IN  StoreItems(IF Retained(item)
                        THEN DictSet(self_info, InfoKey(item), entry)
                        ELSE self_info,
                        Tail(items))

\* The outcome of ytretriever: it raises, returns None, or returns self.info.
YtOutcome(k, n, i) == [kind |-> k, none |-> n, info |-> i]

YtRetriever(self_info, query, before, after, response) ==
    IF ~BeforeTime(before).ok \/ ~AfterTime(after).ok
    THEN YtOutcome("raise", FALSE, self_info)
    ELSE IF response.kind # "ok"
    THEN YtOutcome("return", TRUE, self_info)
    ELSE LET stored == StoreItems(self_info, response.items)
         IN  IF stored = <<>>
             THEN YtOutcome("return", TRUE, stored)
             ELSE YtOutcome("return", FALSE, stored)

\* ------------------------------------------------------------ youtube_search

NoVideosFound(query) == <<"No videos found for query: '", query, "'">>

FormatResult(entry) ==
    <<"Title: ", entry.title, "\n",
      "Channel: ", entry.channel, "\n",
      "Published: ", entry.date, "\n",
      "URL: https://youtube.com/watch?v=", entry.id, "\n">>

\* "\n".join(formatted_results)
RECURSIVE JoinLines(_)
JoinLines(blocks) ==
    IF blocks = <<>> THEN <<>>
    ELSE IF Len(blocks) = 1 THEN blocks[1]
    ELSE blocks[1] \o <<"\n">> \o JoinLines(Tail(blocks))

\* The outcome of the tool and the self.info its ytinteraction instance ends with.
YoutubeSearch(previous, query, before, after, response) ==
    LET results == YtRetriever(YtInit(previous), query, before, after, response)
    IN  IF results.kind = "raise"
        THEN [out |-> Raise(<<"ValueError">>), info |-> results.info]
        ELSE IF results.none \/ results.info = <<>>
        THEN [out |-> Return(NoVideosFound(query)), info |-> results.info]
        ELSE [out |-> Return(JoinLines([i \in 1..Len(results.info) |->
                                           FormatResult(results.info[i].value)])),
              info |-> results.info]


\* ------------------------------------------------- inputs of the tool calls

Queries == {"cooking", "pasta"}

\* before / after as the LLM may pass them; <<>> stands for None.
BeforeArgs ==
    { <<>>,
      <<"1", "2", "/", "3", "1", "/", "2", "0", "2", "4">>,
      <<"2", "0", "2", "4", "-", "1", "2", "-", "3", "1">>,
      <<"0", "2", "/", "3", "0", "/", "2", "0", "2", "5">> }

AfterArgs ==
    { <<>>,
      <<"0", "1", "/", "0", "1", "/", "2", "0", "2", "4">>,
      <<"0", "1", "/", "0", "1", "/", "2", "0", "2", "5">>,
      <<"1", "3", "/", "4", "5", "/", "2", "0", "2", "4">> }

\* The strings validate_date_format is tried on: every way of putting a
\* month text, a separator, a day text, a separator and a year text together.
MonthTexts ==
    { <<>>, <<"5">>, <<"0">>, <<"0", "5">>, <<"0", "2">>, <<"1", "2">>,
      <<"1", "3">>, <<"2", "3">>, <<"0", "0">>, <<"0", "0", "5">> }

DayTexts ==
    { <<>>, <<"3">>, <<"0", "3">>, <<" ", "3">>, <<"0", "5">>, <<"2", "3">>,
      <<"2", "9">>, <<"3", "0">>, <<"3", "1">>, <<"4", "5">>, <<"0", "0">> }

YearTexts ==
    { <<>>, <<"2", "5">>, <<"2", "0", "2", "4">>, <<"2", "0", "2", "5">>,
      <<"0", "0", "0", "0">>, <<"2", "0", "2", "5", "5">> }

Separators == { <<>>, <<"/">>, <<"-">> }

DateStrings ==
    { m \o s1 \o d \o s2 \o y :
        m \in MonthTexts, s1 \in Separators, d \in DayTexts,
        s2 \in Separators, y \in YearTexts }

\* ------------------------------------------------------- states of the tools

NotCalled == [kind |-> "none", value |-> <<>>]

DateNotCalled == [kind |-> "none", value |-> FALSE]

NoResponse == [kind |-> "not requested", items |-> <<>>]

NoSearch == [query |-> "", before |-> <<>>, after |-> <<>>, response |-> NoResponse]

\* No yttranscript call is running.
TranscriptIdle == [pc |-> "idle", ids |-> <<>>, k |-> 1, pause |-> 0, log |-> <<>>]

ToolsIdle ==
    /\ info = <<>> /\ sarg = NoSearch /\ sret = NotCalled /\ sprev = NotCalled
    /\ darg = <<>> /\ dret = DateNotCalled
    /\ tr = TranscriptIdle

LoopIdle ==
    /\ pc = "idle" /\ messages = <<>> /\ state = <<>> /\ route = "none"
    /\ step = 0 /\ last = "none" /\ output = <<>> /\ nextId = 1 /\ turns = 0

loopVars == <<pc, messages, state, route, step, last, output, nextId, turns>>

\* ------------------------------------ validate_date_format on its own

DateInit ==
    /\ LoopIdle
    /\ info = <<>> /\ sarg = NoSearch /\ sret = NotCalled /\ sprev = NotCalled
    /\ darg \in DateStrings
    /\ dret = DateNotCalled
    /\ tr = TranscriptIdle

DateCall ==
    /\ dret.kind = "none"
    /\ dret' = ValidateDateFormat(darg)
    /\ UNCHANGED <<loopVars, info, sarg, sret, sprev, darg, tr>>

DateNext == DateCall

DateSpec == DateInit /\ [][DateNext]_vars

\* ---------------------------------------------- youtube_search on its own

\* The responses the provider can give to a call: none is requested when a
\* date does not parse, because strptime raises before the request is built.
SearchResponses(before, after) ==
    IF ~BeforeTime(before).ok \/ ~AfterTime(after).ok
    THEN {NoResponse}
    ELSE ApiResponses(DayNumber(AfterTime(after)), DayNumber(BeforeTime(before)))

SearchInit ==
    /\ LoopIdle
    /\ ToolsIdle

\* One invocation of the tool; the process goes on and the tool is invoked again.
SearchCall ==
    \E query \in Queries, before \in BeforeArgs, after \in AfterArgs :
      \E response \in SearchResponses(before, after) :
        LET r == YoutubeSearch(info, query, before, after, response)
        IN  /\ sarg' = [query |-> query, before |-> before, after |-> after,
                        response |-> response]
            /\ sret' = r.out
            /\ sprev' = sret
            /\ info' = r.info
            /\ UNCHANGED <<loopVars, darg, dret, tr>>

SearchNext == SearchCall

SearchSpec == SearchInit /\ [][SearchNext]_vars


\* ------------------------------------------------- claims about the tools

DigitChar(n) ==
    CASE n = 0 -> "0" [] n = 1 -> "1" [] n = 2 -> "2" [] n = 3 -> "3"
      [] n = 4 -> "4" [] n = 5 -> "5" [] n = 6 -> "6" [] n = 7 -> "7"
      [] n = 8 -> "8" [] n = 9 -> "9"

TwoDigit(n) == <<DigitChar(n \div 10), DigitChar(n % 10)>>

OneDigit(n) == <<DigitChar(n)>>

EndsWithSlashYear(s) ==
    /\ Len(s) >= 5
    /\ s[Len(s) - 4] = "/"
    /\ \A i \in (Len(s) - 3)..Len(s) : s[i] \in Digits

\* Two-digit month 01..12, "/", two-digit day, "/", four-digit year.
StrictForm(s) ==
    /\ Len(s) = 10
    /\ \E m \in 1..12 : SubSeq(s, 1, 2) = TwoDigit(m)
    /\ s[3] = "/"
    /\ s[4] \in Digits /\ s[5] \in Digits
    /\ EndsWithSlashYear(s)

\* Month 1..12 in one or two digits, "/", day 1..31 in one or two digits (a
\* single digit may follow a blank), "/", four-digit year.
LenientForm(s) ==
    \E m \in 1..12, d \in 1..31 :
      \E mt \in {TwoDigit(m)} \cup (IF m < 10 THEN {OneDigit(m)} ELSE {}),
         dt \in {TwoDigit(d)} \cup
                (IF d < 10 THEN {OneDigit(d), <<" ">> \o OneDigit(d)} ELSE {}) :
        /\ Len(s) = Len(mt) + Len(dt) + 6
        /\ SubSeq(s, 1, Len(mt) + Len(dt) + 1) = mt \o <<"/">> \o dt
        /\ EndsWithSlashYear(s)

EmptyString == <<>>

DayFirstString == <<"2", "3", "/", "0", "5", "/", "2", "0", "2", "5">>

OneDigitString == <<"5", "/", "3", "/", "2", "0", "2", "5">>

\* C10 as stated: validate_date_format never raises, returns false for the
\* empty string and for the day-first 23/05/2025, and returns true only for
\* a two-digit month 01..12, "/", a two-digit day, "/", a four-digit year.
C10_TrueOnlyForTwoDigitFields ==
    dret.kind # "none" =>
        /\ dret.kind = "return"
        /\ dret.value = TRUE => StrictForm(darg)
        /\ darg \in {EmptyString, DayFirstString} => dret.value = FALSE

\* C10 as amended: validate_date_format never raises, returns false for the
\* empty string and for the day-first 23/05/2025, and returns true only for
\* a month 1..12 written with one or two digits, "/", a day 1..31 written
\* with one or two digits (a single digit may follow a blank), "/", and a
\* four-digit year.
C10_TrueOnlyForMonthDayYear ==
    dret.kind # "none" =>
        /\ dret.kind = "return"
        /\ dret.value = TRUE => LenientForm(darg)
        /\ darg \in {EmptyString, DayFirstString} => dret.value = FALSE

\* A date with a one-digit month and day was validated and accepted.
C10_Witness ==
    /\ dret.kind = "return" /\ dret.value = TRUE
    /\ darg = OneDigitString

DatesParse(call) == BeforeTime(call.before).ok /\ AfterTime(call.after).ok

WindowInverted(call) ==
    DayNumber(AfterTime(call.after)) > DayNumber(BeforeTime(call.before))

RetainedItems(items) == SelectSeq(items, Retained)

\* C7 as stated: youtube_search never raises, whatever the dates passed and
\* whatever the provider does.
C7_SearchNeverRaises == sret.kind # "raise"

\* C8: when the provider returns no item, or none that passes the filter,
\* or the lower date bound lies after the upper one, youtube_search returns
\* "No videos found for query: '<query>'" for the query of that call,
\* whatever the calls before it returned.
C8_NoVideosFound ==
    (/\ sret.kind # "none"
     /\ DatesParse(sarg)
     /\ \/ sarg.response.kind = "ok" /\ RetainedItems(sarg.response.items) = <<>>
        \/ WindowInverted(sarg))
    => sret = Return(NoVideosFound(sarg.query))

\* A search that found a video is followed by one whose only item is
\* filtered out, and that one reports no videos.
C8_Witness ==
    /\ sprev.kind = "return" /\ sprev.value[1] = "Title: "
    /\ sarg.response.kind = "ok"
    /\ sarg.response.items # <<>>
    /\ RetainedItems(sarg.response.items) = <<>>
    /\ sret = Return(NoVideosFound(sarg.query))

ExpectedBlock(item) ==
    <<"Title: ", HtmlUnescape(item.title), "\n",
      "Channel: ", item.channelTitle, "\n",
      "Published: ", item.publishedAt, "\n",
      "URL: https://youtube.com/watch?v=", item.videoId, "\n">>

\* C9 as stated: for a response of which k >= 1 items pass the filter,
\* youtube_search returns exactly k blocks, one per retained item in order,
\* each with that item's title, channel, publish timestamp and URL.
C9_OneBlockPerRetainedItem ==
    (/\ sret.kind = "return"
     /\ sarg.response.kind = "ok"
     /\ RetainedItems(sarg.response.items) # <<>>)
    => LET kept == RetainedItems(sarg.response.items)
       IN  sret.value = JoinLines([i \in 1..Len(kept) |-> ExpectedBlock(kept[i])])


\* ------------------------------------------------------------------ messages

HumanMessage(content) ==
    [role |-> "human", content |-> content, tool_calls |-> <<>>,
     tool_call_id |-> 0, status |-> "none"]

AIMessage(content, tool_calls) ==
    [role |-> "ai", content |-> content, tool_calls |-> tool_calls,
     tool_call_id |-> 0, status |-> "none"]

ToolMessage(content, tool_call_id, status) ==
    [role |-> "tool", content |-> content, tool_calls |-> <<>>,
     tool_call_id |-> tool_call_id, status |-> status]

\* An argument the LLM left out of a tool call.
AbsentStr == "<absent>"

AbsentSeq == <<"<absent>">>

ToolCall(name, args, id) == [name |-> name, args |-> args, id |-> id]

SearchArgs(query, before, after) ==
    [query |-> query, before |-> before, after |-> after, date_str |-> AbsentSeq]

DateArgs(date_str) ==
    [query |-> AbsentStr, before |-> <<>>, after |-> <<>>, date_str |-> date_str]

\* ------------------------------------------------------------ should_continue

ShouldContinueAnyAI(st) ==
    IF Last(st).role = "ai" THEN "continue" ELSE "end"

ShouldContinue(st) ==
    IF Last(st).role = "ai" /\ Last(st).tool_calls # <<>> THEN "continue" ELSE "end"

\* ------------------------------------------------------------------ the LLM

GoodDate == <<"0", "5", "/", "2", "3", "/", "2", "0", "2", "5">>

BadDate == <<"1", "3", "/", "4", "5", "/", "2", "0", "2", "4">>

IsoDate == <<"2", "0", "2", "4", "-", "1", "2", "-", "3", "1">>

\* The tool calls of one assistant message, identifiers first, first + 1, ...
SearchOnly(first) ==
    <<ToolCall("youtube_search", SearchArgs("cooking", <<>>, <<>>), first)>>

TwoDates(first) ==
    <<ToolCall("validate_date_format", DateArgs(GoodDate), first),
      ToolCall("validate_date_format", DateArgs(BadDate), first + 1)>>

ThreeFailing(first) ==
    <<ToolCall("youtube_transcript", DateArgs(GoodDate), first),
      ToolCall("youtube_search", SearchArgs(AbsentStr, <<>>, <<>>), first + 1),
      ToolCall("youtube_search", SearchArgs("pasta", IsoDate, <<>>), first + 2)>>

\* model.invoke: a text-only reply, or a request for tool calls.
LLMResponses(varied, first) ==
    {AIMessage(<<"Here is what I found.">>, <<>>), AIMessage(<<>>, SearchOnly(first))}
    \cup (IF varied
          THEN {AIMessage(<<>>, TwoDates(first)), AIMessage(<<>>, ThreeFailing(first))}
          ELSE {})

UserInputs == {<<"find me a short cooking video">>}

\* -------------------------------------------------------------------- ToolNode

ToolNames == {"youtube_search", "validate_date_format"}

\* The arguments satisfy the tool's schema: the required ones are there.
ArgsValid(call) ==
    IF call.name = "youtube_search" THEN call.args.query # AbsentStr
    ELSE call.args.date_str # AbsentSeq

\* ToolNode is built without handle_tool_errors: the default catches what a
\* tool raises and turns it into an error ToolMessage.
HandleToolErrorsOff == FALSE

HandleToolErrors == TRUE

\* The content of the ToolMessage of a call that failed.
ErrorContent(what) == <<"Error: ", what, "\n Please fix your mistakes.">>

\* One tool call: the ToolMessage it gives, or the exception that escapes,
\* and the self.info of the ytinteraction instance a search leaves behind.
RunTool(call, response, previous) ==
    IF call.name \notin ToolNames
    THEN [raised |-> FALSE, info |-> previous,
          message |-> ToolMessage(<<"Error: ", call.name, " is not a valid tool, try one of [youtube_search, validate_date_format].">>,
                                  call.id, "error")]
    ELSE IF ~ArgsValid(call)
    THEN [raised |-> ~HandleToolErrors, info |-> previous,
          message |-> ToolMessage(ErrorContent("ValidationError"), call.id, "error")]
    ELSE IF call.name = "validate_date_format"
    THEN LET r == ValidateDateFormat(call.args.date_str)
         IN  [raised |-> FALSE, info |-> previous,
              \* a bool return value becomes JSON text
              message |-> ToolMessage(IF r.value THEN <<"true">> ELSE <<"false">>,
                                      call.id, "success")]
    ELSE LET r == YoutubeSearch(previous, call.args.query, call.args.before,
                                call.args.after, response)
         IN  IF r.out.kind = "raise"
             THEN [raised |-> ~HandleToolErrors, info |-> r.info,
                   message |-> ToolMessage(ErrorContent("ValueError"), call.id, "error")]
             ELSE [raised |-> FALSE, info |-> r.info,
                   message |-> ToolMessage(r.out.value, call.id, "success")]

\* The tool calls of the last message, one after the other, in their order.
RECURSIVE RunCalls(_, _, _)
RunCalls(calls, responses, previous) ==
    IF calls = <<>> THEN [raised |-> FALSE, info |-> previous, messages |-> <<>>]
    ELSE LET one  == RunTool(Head(calls), Head(responses), previous)
             rest == RunCalls(Tail(calls), Tail(responses), one.info)
         IN  [raised   |-> one.raised \/ rest.raised,
              info     |-> rest.info,
              messages |-> <<one.message>> \o rest.messages]

ToolNodeFirstOnly(st, responses, previous) ==
    RunCalls(SubSeq(Last(st).tool_calls, 1, 1), responses, previous)

ToolNode(st, responses, previous) ==
    RunCalls(Last(st).tool_calls, responses, previous)

\* What the provider may answer to each call of a batch (a call that makes
\* no request gets NoResponse).
CallResponses(call, varied) ==
    IF call.name = "youtube_search" /\ ArgsValid(call)
    THEN IF varied
         THEN {r \in SearchResponses(call.args.before, call.args.after) :
                 Len(r.items) <= 1 /\ r.kind # "malformed"}
         ELSE {r \in SearchResponses(call.args.before, call.args.after) :
                 r.kind \in {"not requested", "HttpError"}}
    ELSE {NoResponse}

BatchResponses(calls, varied) ==
    {rs \in [1..Len(calls) -> UNION {CallResponses(calls[i], varied) : i \in 1..Len(calls)}] :
        \A i \in 1..Len(calls) : rs[i] \in CallResponses(calls[i], varied)}


\* ------------------------------------------------ the graph and __main__

\* app.invoke is called without a config, so langgraph's default
\* recursion_limit applies: GraphRecursionError is raised when a node is due
\* after this many supersteps. Releases differ in whether that node still
\* runs before the error is raised, so at exactly RecursionLimit supersteps
\* the node may run or the error may be raised; after one more, only the
\* error.
RecursionLimit == 25

\* operator.add, the reducer of AgentState.messages.
OperatorAdd(old, update) == old \o update

\* What agent_node returns for the channel: the response alone.
AgentNodeUpdateAll(st, response) == st \o <<response>>

AgentNodeUpdate(st, response) == <<response>>

\* current_messages of __main__.
CurrentMessagesReset(history, user_input) == <<HumanMessage(user_input)>>

CurrentMessages(history, user_input) == history \o <<HumanMessage(user_input)>>

Varied == step < MaxVaried

Init ==
    /\ pc = "input" /\ messages = <<>> /\ state = <<>> /\ route = "none"
    /\ step = 0 /\ last = "none" /\ output = <<>> /\ nextId = 1 /\ turns = 0
    /\ ToolsIdle

toolVars == <<sarg, sret, sprev, darg, dret, tr>>

\* input() gives a line that is not quit/exit; app.invoke starts on the
\* history plus the new HumanMessage.
UserInput ==
    /\ pc = "input"
    /\ turns < MaxTurns
    /\ Len(messages) <= MaxHistory
    /\ \E user_input \in UserInputs :
         state' = OperatorAdd(<<>>, CurrentMessages(messages, user_input))
    /\ pc' = "awaiting_decision"
    /\ step' = 0
    /\ route' = "none"
    /\ last' = "input"
    /\ turns' = turns + 1
    /\ UNCHANGED <<messages, output, nextId, info, toolVars>>

\* input() gives quit or exit: the loop breaks.
Quit ==
    /\ pc = "input"
    /\ pc' = "finished"
    /\ last' = "quit"
    /\ UNCHANGED <<messages, state, route, step, output, nextId, turns, info, toolVars>>

\* The agent node: model.invoke answers and the response joins the channel.
AgentNode ==
    /\ pc = "awaiting_decision"
    /\ step <= RecursionLimit
    /\ \E response \in LLMResponses(Varied, nextId) :
         /\ state' = OperatorAdd(state, AgentNodeUpdate(state, response))
         /\ nextId' = nextId + Len(response.tool_calls)
    /\ pc' = "awaiting_route"
    /\ step' = step + 1
    /\ last' = "agent"
    /\ UNCHANGED <<messages, route, output, turns, info, toolVars>>

\* The agent node: model.invoke raises (network, quota, authentication);
\* nothing in the graph or in __main__ catches it and the process ends.
AgentNodeRaises ==
    /\ pc = "awaiting_decision"
    /\ step <= RecursionLimit
    /\ pc' = "crashed"
    /\ last' = "agent"
    /\ UNCHANGED <<messages, state, route, step, output, nextId, turns, info, toolVars>>

\* The conditional edge out of the agent node.
Route ==
    /\ pc = "awaiting_route"
    /\ route' = ShouldContinue(state)
    /\ pc' = IF route' = "continue" THEN "dispatching" ELSE "done"
    /\ last' = "route"
    /\ UNCHANGED <<messages, state, step, output, nextId, turns, info, toolVars>>

\* The tools node, then the edge back to the agent node. An exception that
\* escapes ToolNode ends the process like any other.
Tools ==
    /\ pc = "dispatching"
    /\ step <= RecursionLimit
    /\ \E responses \in BatchResponses(Last(state).tool_calls, Varied) :
         LET r == ToolNode(state, responses, info)
         IN  IF r.raised
             THEN /\ pc' = "crashed"
                  /\ UNCHANGED <<state, step, info>>
             ELSE /\ state' = OperatorAdd(state, r.messages)
                  /\ pc' = "awaiting_decision"
                  /\ step' = step + 1
                  /\ info' = r.info
    /\ last' = "tools"
    /\ UNCHANGED <<messages, route, output, nextId, turns, toolVars>>

\* A node is due after RecursionLimit supersteps: app.invoke raises
\* GraphRecursionError, __main__ does not catch it and the process ends
\* with `messages` as it was before the turn.
RecursionError ==
    /\ pc \in {"awaiting_decision", "dispatching"}
    /\ step >= RecursionLimit
    /\ pc' = "crashed"
    /\ last' = "GraphRecursionError"
    /\ UNCHANGED <<messages, state, route, step, output, nextId, turns, info, toolVars>>

\* app.invoke returns: the final state replaces `messages` and the content
\* of its last message is printed.
Reply ==
    /\ pc = "done"
    /\ messages' = state
    /\ output' = Last(state).content
    /\ pc' = "input"
    /\ last' = "print"
    /\ UNCHANGED <<state, route, step, nextId, turns, info, toolVars>>

Next ==
    \/ UserInput
    \/ Quit
    \/ AgentNode
    \/ AgentNodeRaises
    \/ Route
    \/ Tools
    \/ RecursionError
    \/ Reply

Spec == Init /\ [][Next]_vars

\* ------------------------------------------------ should_continue on its own

\* Longest conversation should_continue is tried on.
MaxRouteLen == 3

RouteMessages ==
    { HumanMessage(<<"find me a short cooking video">>),
      AIMessage(<<"Here is what I found.">>, <<>>),
      AIMessage(<<>>, SearchOnly(1)),
      AIMessage(<<"Let me check both dates.">>, TwoDates(1)),
      ToolMessage(<<"true">>, 1, "success"),
      ToolMessage(ErrorContent("ValueError"), 1, "error") }

RouteInit ==
    /\ pc = "idle" /\ messages = <<>> /\ route = "none"
    /\ step = 0 /\ last = "none" /\ output = <<>> /\ nextId = 1 /\ turns = 0
    /\ ToolsIdle
    /\ state \in SeqsUpTo(RouteMessages, MaxRouteLen) \ {<<>>}

RouteCall ==
    /\ route' = ShouldContinue(state)
    /\ last' = "route"
    /\ UNCHANGED <<pc, messages, state, step, output, nextId, turns, info, toolVars>>

RouteNext == RouteCall

RoutingSpec == RouteInit /\ [][RouteNext]_vars


\* ------------------------------------------------- claims about the loop

\* C1: should_continue returns 'continue' exactly when the last message is
\* an assistant message with at least one tool call and 'end' otherwise; it
\* leaves the conversation state as it is, and a second call on the same
\* state gives the label the first gave.
C1_RoutingIsPure ==
    /\ [](route # "none" =>
            route = (IF Last(state).role = "ai" /\ Len(Last(state).tool_calls) >= 1
                     THEN "continue" ELSE "end"))
    /\ [][state' = state /\ (route # "none" => route' = route)]_vars

\* should_continue said 'continue' for a conversation that ends with an
\* assistant message carrying two tool calls.
C1_Witness ==
    /\ pc = "idle" /\ route = "continue"
    /\ Len(state) > 1
    /\ Last(state).role = "ai" /\ Len(Last(state).tool_calls) = 2

Conversation == IF pc \in {"input", "finished"} THEN messages ELSE state

\* C3: the conversation state only grows by appending. Every step keeps
\* what was there, in place; a user input appends one user message, a
\* Decision Step exactly one assistant message, a Dispatch Step tool-result
\* messages only, and no other step changes it.
C3_AppendOnly ==
    [][LET old   == Conversation
           new   == Conversation'
           added == SubSeq(new, Len(old) + 1, Len(new))
       IN  /\ IsPrefix(old, new)
           /\ CASE last' = "input" /\ pc' = "awaiting_decision" ->
                      Len(added) = 1 /\ added[1].role = "human"
                [] last' = "agent" /\ pc' = "awaiting_route" ->
                      Len(added) = 1 /\ added[1].role = "ai"
                [] last' = "tools" /\ pc' = "awaiting_decision" ->
                      \A i \in 1..Len(added) : added[i].role = "tool"
                [] OTHER -> added = <<>>
      ]_vars

\* The second turn is in its second Decision, after a dispatch cycle, on top
\* of the first turn's messages.
C3_Witness ==
    /\ turns = 2 /\ pc = "awaiting_route" /\ step = 3
    /\ IsPrefix(messages, state)
    /\ Len(state) >= Len(messages) + 4

\* The tool-result messages that follow position a are the answers, in
\* order, to the requests of the assistant message at a.
Answered(st, a) ==
    LET calls == st[a].tool_calls
    IN  /\ Len(st) >= a + Len(calls)
        /\ \A i \in 1..Len(calls) :
              /\ st[a + i].role = "tool"
              /\ st[a + i].tool_call_id = calls[i].id
        /\ Len(st) > a + Len(calls) => st[a + Len(calls) + 1].role # "tool"

\* C4: a Dispatch Step on an assistant message with N requests appends
\* exactly N tool-result messages, the i-th carrying the identifier of the
\* i-th request. So in the conversation state every assistant message but a
\* last one still to be dispatched is followed by exactly the answers to its
\* requests, once each and in order, and every tool-result message is one
\* of those answers.
C4_OneResultPerRequest ==
    /\ [][pc = "dispatching" /\ pc' = "awaiting_decision" =>
            /\ Last(state).role = "ai"
            /\ Len(state') = Len(state) + Len(Last(state).tool_calls)
            /\ SubSeq(state', 1, Len(state)) = state
            /\ Answered(state', Len(state))
         ]_vars
    /\ [](\A a \in 1..Len(state) :
            /\ state[a].role = "ai" /\ a < Len(state) => Answered(state, a)
            /\ state[a].role = "tool" =>
                 \E b \in 1..(a - 1) :
                    /\ state[b].role = "ai"
                    /\ a - b <= Len(state[b].tool_calls)
                    /\ Answered(state, b))

\* A Dispatch Step has answered an assistant message with three requests.
C4_Witness ==
    /\ pc = "awaiting_decision" /\ last = "tools"
    /\ Len(state) >= 4
    /\ Len(state[Len(state) - 3].tool_calls) = 3
    /\ \A i \in 1..3 :
          state[Len(state) - 3 + i].tool_call_id = state[Len(state) - 3].tool_calls[i].id

\* The request fails: it names no registered tool, lacks a required
\* argument, or is a search whose date makes the tool raise.
Fails(call) ==
    \/ call.name \notin {"youtube_search", "validate_date_format"}
    \/ call.name = "youtube_search" /\ call.args.query = AbsentStr
    \/ call.name = "validate_date_format" /\ call.args.date_str = AbsentSeq
    \/ call.name = "youtube_search" /\ ~DatesParse(call.args)

\* C5: a Dispatch Step does not end the turn when a request names an
\* unknown tool, has malformed arguments or makes its tool raise: the step
\* appends, for that request, a tool-result message that carries a failure
\* description, and control is back at the Decision Step.
C5_FailuresBecomeResults ==
    [][pc = "dispatching" /\ last' = "tools" =>
         /\ pc' = "awaiting_decision"
         /\ \A i \in 1..Len(Last(state).tool_calls) :
               Fails(Last(state).tool_calls[i]) =>
                 /\ Len(state') >= Len(state) + i
                 /\ state'[Len(state) + i].role = "tool"
                 /\ state'[Len(state) + i].tool_call_id = Last(state).tool_calls[i].id
                 /\ state'[Len(state) + i].status = "error"
                 /\ state'[Len(state) + i].content[1] = "Error: "
      ]_vars

\* A batch with an unknown tool, a call without its required argument and a
\* search with an unparsable date has been dispatched, and the Decision Step
\* has run after it.
C5_Witness ==
    /\ pc = "awaiting_route" /\ last = "agent"
    /\ Len(state) >= 5
    /\ LET a == Len(state) - 4
       IN  /\ state[a].role = "ai" /\ Len(state[a].tool_calls) = 3
           /\ \A i \in 1..3 : /\ Fails(state[a].tool_calls[i])
                              /\ state[a + i].status = "error"

\* C6 as stated: when a turn exceeds the maximum number of dispatch cycles,
\* the turn is aborted, the session goes on and the next turn can start
\* from the messages accumulated so far.
C6_AbortKeepsSession ==
    last = "GraphRecursionError" => pc = "input" /\ messages = state


\* ------------------------------------------- ytinteraction.yttranscript

\* Longest list of ids yttranscript is called with.
MaxIds == 3

\* time.sleep(3)
SleepSeconds == 3

VideoIds == {"vidA", "vidB"}

\* ' '.join(transcript_snippets)
RECURSIVE JoinSpaces(_)
JoinSpaces(snippets) ==
    IF snippets = <<>> THEN <<>>
    ELSE IF Len(snippets) = 1 THEN <<snippets[1]>>
    ELSE <<snippets[1], " ">> \o JoinSpaces(Tail(snippets))

\* The text stored for a fetched transcript.
TranscriptText(snippets) == <<"TRANSCRIPT: ">> \o JoinSpaces(snippets)

\* The snippets ytt_api.fetch returns for a video that has a transcript.
FetchedSnippets(id) == <<"welcome to", id>>

HasKey(d, k) == \E i \in 1..Len(d) : d[i].key = k

\* self.info of the instance when yttranscript is called: empty, or what an
\* earlier ytretriever call of the same instance left in it.
TranscriptInfos == {YtInit(<<>>), StoreItems(YtInit(<<>>), <<ItemA>>)}

TranscriptInit ==
    /\ LoopIdle
    /\ sarg = NoSearch /\ sret = NotCalled /\ sprev = NotCalled
    /\ darg = <<>> /\ dret = DateNotCalled
    /\ info \in TranscriptInfos
    /\ \E ids \in SeqsUpTo(VideoIds, MaxIds) :
         tr = [pc |-> "fetch", ids |-> ids, k |-> 1, pause |-> 0, log |-> <<>>]

transcriptRest == <<loopVars, sarg, sret, sprev, darg, dret>>

\* The fetch of the k-th id starts; `pause` is what was slept since the
\* fetch before it started.
StartFetch(ok) ==
    [tr EXCEPT !.log = Append(@, [id |-> tr.ids[tr.k], ok |-> ok, pause |-> tr.pause]),
               !.pause = 0]

\* ytt_api.fetch returns the transcript.
FetchReturns ==
    /\ tr.pc = "fetch" /\ tr.k <= Len(tr.ids)
    /\ tr' = [StartFetch(TRUE) EXCEPT !.pc = "store"]
    /\ UNCHANGED <<info, transcriptRest>>

\* ytt_api.fetch raises (no transcript, blocked, network): the except
\* clause prints and continues with the next id.
FetchRaises ==
    /\ tr.pc = "fetch" /\ tr.k <= Len(tr.ids)
    /\ tr' = [StartFetch(FALSE) EXCEPT !.k = @ + 1]
    /\ UNCHANGED <<info, transcriptRest>>

\* The transcript is stored. With the key 'id' in self.info the entry of
\* the video is updated, and self.info[id] raises KeyError when there is
\* none: the except clause continues with the next id. Without the key a
\* new entry is stored. time.sleep follows a store that did not raise.
StoreTranscript ==
    /\ tr.pc = "store"
    /\ LET id         == tr.ids[tr.k]
           transcript == TranscriptText(FetchedSnippets(id))
       IN  IF HasKey(info, "id")
           THEN IF HasKey(info, id)
                THEN /\ info' = [i \in 1..Len(info) |->
                                   IF info[i].key = id
                                   THEN [info[i] EXCEPT !.value.transcript = transcript]
                                   ELSE info[i]]
                     /\ tr' = [tr EXCEPT !.pc = "sleep"]
                ELSE /\ info' = info
                     /\ tr' = [tr EXCEPT !.pc = "fetch", !.k = @ + 1]
           ELSE /\ info' = DictSet(info, id,
                                   [title |-> "None", channel |-> "None",
                                    date |-> "None", id |-> id,
                                    transcript |-> transcript,
                                    transcript_summary |-> "None"])
                /\ tr' = [tr EXCEPT !.pc = "sleep"]
    /\ UNCHANGED transcriptRest

\* time.sleep(3), then the next id.
Sleep ==
    /\ tr.pc = "sleep"
    /\ tr' = [tr EXCEPT !.pc = "fetch", !.k = @ + 1, !.pause = @ + SleepSeconds]
    /\ UNCHANGED <<info, transcriptRest>>

\* The loop is over: return self.info.
TranscriptReturn ==
    /\ tr.pc = "fetch" /\ tr.k > Len(tr.ids)
    /\ tr' = [tr EXCEPT !.pc = "returned"]
    /\ UNCHANGED <<info, transcriptRest>>

TranscriptNext ==
    \/ FetchReturns
    \/ FetchRaises
    \/ StoreTranscript
    \/ Sleep
    \/ TranscriptReturn

TranscriptSpec == TranscriptInit /\ [][TranscriptNext]_vars

\* C11 as stated: whatever the ids and whatever the outcome of each fetch,
\* every fetch but the first starts after a pause of at least 3 seconds
\* taken since the fetch before it.
C11_PauseBetweenFetches ==
    \A n \in 2..Len(tr.log) : tr.log[n].pause >= SleepSeconds

=============================================================================
